---------------------------- MODULE Spec2Model ----------------------------
(***************************************************************************)
(* Linear stability analysis of symmetric instability                      *)
(* (LinearStabilityAnalysis/LinearStabilityAnalysis.ipynb).                *)
(*                                                                         *)
(* The notebook is a straight-line program of cells: the parameters cell,  *)
(* the sweep cell (a loop of eigen-solves over lambda_arr followed by the  *)
(* squeeze().real of the collected eigenfunctions) and the analysis cell   *)
(* (an xarray Dataset with the growth rate, the least stable wavelength    *)
(* per viscosity and the normalised eigenfunctions).                       *)
(*                                                                         *)
(* Floating point numbers are modelled as exact extended rationals         *)
(* [n, d]: d > 0 is the rational n/d in lowest terms, 1/0 and -1/0 are     *)
(* +inf and -inf, 0/0 is not-a-number.  Complex numbers are pairs          *)
(* [re, im] of such numbers.  Rounding and the sign of zero are not        *)
(* modelled.                                                               *)
(***************************************************************************)
EXTENDS Integers, Sequences, FiniteSets

(***************************************************************************)
(* Bounds of the model.                                                    *)
(***************************************************************************)
\* longest lambda_arr considered
MaxLen == 3
\* wavelengths are drawn from 1..MaxWavelength (and one negative value)
MaxWavelength == 3
\* longest viscosity_arr considered
MaxVisc == 2

(***************************************************************************)
(* Extended rational arithmetic (numpy float64 semantics, exact).          *)
(***************************************************************************)
Abs(i) == IF i < 0 THEN -i ELSE i

Sgn(i) == IF i < 0 THEN -1 ELSE IF i > 0 THEN 1 ELSE 0

RECURSIVE GCD(_, _)
GCD(a, b) == IF b = 0 THEN a ELSE GCD(b, a % b)

\* the number n/d in canonical form
Frac(n, d) ==
    IF d = 0 THEN [n |-> Sgn(n), d |-> 0]
    ELSE LET g == GCD(Abs(n), Abs(d))
         IN  [n |-> Sgn(d) * (n \div g), d |-> Abs(d) \div g]

Num(i) == [n |-> i, d |-> 1]

NaN == [n |-> 0, d |-> 0]

Inf == [n |-> 1, d |-> 0]

IsNaN(a) == a.d = 0 /\ a.n = 0

IsInf(a) == a.d = 0 /\ a.n # 0

Neg(a) == [n |-> -a.n, d |-> a.d]

Add(a, b) ==
    IF IsNaN(a) \/ IsNaN(b) THEN NaN
    ELSE IF IsInf(a) /\ IsInf(b) THEN (IF a.n = b.n THEN a ELSE NaN)
    ELSE IF IsInf(a) THEN a
    ELSE IF IsInf(b) THEN b
    ELSE Frac(a.n * b.d + b.n * a.d, a.d * b.d)

Sub(a, b) == Add(a, Neg(b))

Mul(a, b) == Frac(a.n * b.n, a.d * b.d)

\* x / 0 is +-inf, 0 / 0 and inf / inf are not-a-number, x / inf is 0
Div(a, b) == Frac(a.n * b.d * (IF b.n < 0 THEN -1 ELSE 1), a.d * Abs(b.n))

\* a >= b; any comparison with not-a-number is False
Geq(a, b) ==
    IF IsNaN(a) \/ IsNaN(b) THEN FALSE
    ELSE IF IsInf(a) THEN (a.n = 1 \/ b = a)
    ELSE IF IsInf(b) THEN b.n = -1
    ELSE a.n * b.d >= b.n * a.d

Gt(a, b) == Geq(a, b) /\ a # b

\* a sign that takes zero as positive
SignOfZeroIsOne(a) == IF IsNaN(a) THEN NaN ELSE Num(IF a.n < 0 THEN -1 ELSE 1)

\* np.sign
Sign(a) == IF IsNaN(a) THEN NaN ELSE Num(Sgn(a.n))

\* np.square
Square(a) == Mul(a, a)

Cx(re, im) == [re |-> re, im |-> im]

CSquare(z) == Cx(Sub(Square(z.re), Square(z.im)), Mul(Num(2), Mul(z.re, z.im)))


\* candidates for the real and the imaginary part of a square root
MaxRoot == 4

Roots == {Cx(Num(a), Num(b)) : a, b \in -MaxRoot..MaxRoot}

\* np.lib.scimath.sqrt of a complex number: the principal square root
CSqrt(z) ==
    CHOOSE w \in Roots :
        /\ CSquare(w) = z
        /\ (w.re.n > 0 \/ (w.re.n = 0 /\ w.im.n >= 0))

(***************************************************************************)
(* Parameters of the problem (the parameters cell).                        *)
(***************************************************************************)
\* number of grid points of the model's grid (nx = int(Lx / dx))
NX == 3

dx == 100

Lx == NX * dx

nx == Lx \div dx

\* x = np.arange(0, nx * dx, dx)
x == [i \in 1..nx |-> Num((i - 1) * dx)]

N2 == Frac(25, 1000000)

f == Frac(101, 10000000)

\* np.pi, as a rational
Pi == Frac(22, 7)

TwoPi == Mul(Num(2), Pi)

\* a matrix a * d2_dx2 + b * f_zeta + c * identity, by its coefficients
Matrix(a, b, c) == [d2_dx2 |-> a, f_zeta |-> b, eye |-> c]

VARIABLES
    hydrostatic,          \* the hydrostatic flag
    lambda_arr,           \* vertical wavelengths of the sweep
    viscosity_arr,        \* viscosities of the growth rate field
    x_vorticity_minima,   \* x at the vorticity minimum (minimize_scalar)
    arpack,               \* what eigs returns for each operator it is given
    eigen_value_arr,      \* np.empty_like(lambda_arr, dtype='complex')
    psi_arr,              \* np.empty((lambda_arr.size, x.size, 1))
    ii,                   \* number of loop iterations completed
    pc,                   \* the statement the notebook is at
    error,                \* the exception that ended the run, if any
    writes,               \* history: stores made into each slot
    solves,               \* history: number of calls of eigs
    warnings,             \* warnings issued by the sweep cell
    ds                    \* the xarray Dataset of the analysis cell

vars == <<hydrostatic, lambda_arr, viscosity_arr, x_vorticity_minima, arpack,
          eigen_value_arr, psi_arr, ii, pc, error, writes, solves, warnings, ds>>

config == <<hydrostatic, lambda_arr, viscosity_arr, x_vorticity_minima, arpack>>

(***************************************************************************)
(* calculate_eigenvalue                                                    *)
(***************************************************************************)
m_of(lambda_val) == Div(TwoPi, lambda_val)

m2_of(lambda_val) == Square(m_of(lambda_val))

\* eigen_operator = -N2 / m2 * d2_dx2 + f_zeta
eigen_operator(lambda_val) ==
    Matrix(Div(Neg(N2), m2_of(lambda_val)), Num(1), Num(0))

\* generalised_M = sps.eye(nx) - d2_dx2 / m2
generalised_M(lambda_val) ==
    Matrix(Neg(Div(Num(1), m2_of(lambda_val))), Num(0), Num(1))

\* the arguments of the call of eigs
eigs_args(lambda_val, hydro) ==
    IF hydro
    THEN [A |-> eigen_operator(lambda_val), M |-> Matrix(Num(0), Num(0), Num(1)),
          generalised |-> FALSE]
    ELSE [A |-> eigen_operator(lambda_val), M |-> generalised_M(lambda_val),
          generalised |-> TRUE]

\* eigs(..., k=1, which='SR', return_eigenvectors=True): the eigenvalue and
\* eigenvector ARPACK finds, or ArpackNoConvergence
calculate_eigenvalue(lambda_val) == arpack[eigs_args(lambda_val, hydrostatic)]

(***************************************************************************)
(* The configurations and the eigen-solver outcomes explored.              *)
(***************************************************************************)
Range(s) == {s[i] : i \in DOMAIN s}

\* strictly ascending sequences of at most maxlen numbers of S
AscendingSeqs(S, maxlen) ==
    {s \in UNION {[1..k -> S] : k \in 1..maxlen} :
        \A i, j \in DOMAIN s : i < j => Gt(s[j], s[i])}

\* wavelengths: a negative one, and 1..MaxWavelength
LambdaVals == {Num(-1)} \cup {Num(k) : k \in 1..MaxWavelength}

\* viscosities, in units of 1 / (2 pi)^2: zero, and two positive ones
ViscVals == {Div(Num(k), Square(TwoPi)) : k \in {0, 1, 4}}

\* positions of the vorticity minimum, inside the domain
XMinVals == {Frac(dx, 3), Frac(2 * dx, 3)}

\* what np.empty may hold
Garbage == {Cx(Num(0), Num(0)), Cx(Num(-9), Num(0))}

EigenResult(val, vec) == [converged |-> TRUE, val |-> val, vec |-> vec]

ArpackNoConvergence == [converged |-> FALSE, val |-> Cx(NaN, NaN), vec |-> <<>>]

\* eigenvalue / eigenvector pairs eigs may return, and its failure
Outcomes ==
    { EigenResult(Cx(Num(-16), Num(0)), [i \in 1..nx |-> Cx(Num(i), Num(0))]),
      EigenResult(Cx(Num(-1), Num(0)),  [i \in 1..nx |-> Cx(Num(-i), Num(0))]),
      EigenResult(Cx(Num(-3), Num(-4)), [i \in 1..nx |-> Cx(Num(i - 2), Num(1))]),
      ArpackNoConvergence }

NoDataset ==
    [lambda |-> <<>>, viscosity |-> <<>>, lon |-> <<>>,
     eigen_value |-> <<>>, psi_unnormalised |-> <<>>, m |-> <<>>, m2 |-> <<>>,
     omega_hat |-> <<>>, omega |-> <<>>, sigma |-> <<>>, sigma_normalised |-> <<>>,
     lambda_unstable |-> <<>>, sigma_unstable |-> <<>>, time_scale_days |-> <<>>,
     psi_sign_corrected |-> <<>>, psi_norm_area |-> <<>>, psi_norm_max |-> <<>>]

\* the state after the parameters cell and the allocation of the arrays
Init ==
    /\ hydrostatic \in BOOLEAN
    /\ lambda_arr \in AscendingSeqs(LambdaVals, MaxLen)
    /\ viscosity_arr \in AscendingSeqs(ViscVals, MaxVisc)
    /\ x_vorticity_minima \in XMinVals
    /\ arpack \in [{eigs_args(l, hydrostatic) : l \in Range(lambda_arr)} -> Outcomes]
    /\ \E g \in Garbage :
        /\ eigen_value_arr = [i \in DOMAIN lambda_arr |-> g]
        /\ psi_arr = [i \in DOMAIN lambda_arr |-> [j \in 1..nx |-> g]]
    /\ ii = 0
    /\ pc = "loop"
    /\ error = "none"
    /\ writes = [i \in DOMAIN lambda_arr |-> 0]
    /\ solves = 0
    /\ warnings = {}
    /\ ds = NoDataset

(***************************************************************************)
(* The sweep cell.                                                         *)
(***************************************************************************)
\* a store that lands one slot early
StoreResultOffByOne(i, r) ==
    LET k == IF i > 1 THEN i - 1 ELSE i
    IN  /\ eigen_value_arr' = [eigen_value_arr EXCEPT ![k] = r.val]
        /\ psi_arr' = [psi_arr EXCEPT ![k] = r.vec]
        /\ writes' = [writes EXCEPT ![k] = @ + 1]

\* a store that appends: it lands in the slot after the results stored so far
StoreResultAppend(i, r) ==
    /\ eigen_value_arr' = [eigen_value_arr EXCEPT ![ii + 1] = r.val]
    /\ psi_arr' = [psi_arr EXCEPT ![ii + 1] = r.vec]
    /\ writes' = [writes EXCEPT ![ii + 1] = @ + 1]

\* eigen_value_arr[ii], psi_arr[ii] = <the result r of the solve>
StoreResult(i, r) ==
    /\ eigen_value_arr' = [eigen_value_arr EXCEPT ![i] = r.val]
    /\ psi_arr' = [psi_arr EXCEPT ![i] = r.vec]
    /\ writes' = [writes EXCEPT ![i] = @ + 1]

\* one iteration of the loop, for the slot i, whose solve converges
LoopBody(i) ==
    LET r == calculate_eigenvalue(lambda_arr[i])
    IN  /\ r.converged
        /\ solves' = solves + 1
        /\ StoreResult(i, r)
        /\ ii' = ii + 1
        /\ UNCHANGED <<config, pc, error, warnings, ds>>

\* a loop body that catches the exception and goes on to the next wavelength
LoopBodySkips(i) ==
    LET r == calculate_eigenvalue(lambda_arr[i])
    IN  /\ ~r.converged
        /\ solves' = solves + 1
        /\ ii' = ii + 1
        /\ UNCHANGED <<config, eigen_value_arr, psi_arr, pc, error, writes, warnings, ds>>

\* one iteration of the loop, for the slot i, whose solve raises
LoopBodyRaises(i) ==
    LET r == calculate_eigenvalue(lambda_arr[i])
    IN  /\ ~r.converged
        /\ solves' = solves + 1
        /\ error' = "ArpackNoConvergence"
        /\ pc' = "error"
        /\ UNCHANGED <<config, eigen_value_arr, psi_arr, ii, writes, warnings, ds>>

\* for ii in range(len(lambda_arr)): the next iteration
SweepIteration ==
    /\ pc = "loop"
    /\ ii < Len(lambda_arr)
    /\ LoopBody(ii + 1)

SweepRaises ==
    /\ pc = "loop"
    /\ ii < Len(lambda_arr)
    /\ LoopBodyRaises(ii + 1)

\* the range is exhausted
SweepExit ==
    /\ pc = "loop"
    /\ ii = Len(lambda_arr)
    /\ pc' = "squeeze"
    /\ UNCHANGED <<config, eigen_value_arr, psi_arr, ii, error, writes, solves,
                   warnings, ds>>

\* .imag instead of .real
Imag(z) == z.im

\* .real of one complex number
Real(z) == z.re

\* psi_arr = psi_arr.squeeze().real
Squeeze ==
    /\ pc = "squeeze"
    /\ psi_arr' = [i \in DOMAIN psi_arr |->
                     [j \in DOMAIN psi_arr[i] |-> Real(psi_arr[i][j])]]
    /\ pc' = "dataset"
    /\ UNCHANGED <<config, eigen_value_arr, ii, error, writes, solves, warnings, ds>>

(***************************************************************************)
(* The analysis cell.                                                      *)
(***************************************************************************)
\* ds = xr.Dataset(coords=...); eigen_value, psi_unnormalised, m, m2
BuildDataset ==
    /\ pc = "dataset"
    /\ ds' = [ds EXCEPT !.lambda = lambda_arr,
                        !.viscosity = viscosity_arr,
                        !.lon = x,
                        !.eigen_value = eigen_value_arr,
                        !.psi_unnormalised = psi_arr,
                        !.m = [i \in DOMAIN lambda_arr |-> Div(TwoPi, lambda_arr[i])],
                        !.m2 = [i \in DOMAIN lambda_arr |->
                                  Square(Div(TwoPi, lambda_arr[i]))]]
    /\ pc' = "omega_hat"
    /\ UNCHANGED <<config, eigen_value_arr, psi_arr, ii, error, writes, solves, warnings>>

\* z * r for a complex z and a real r
CScale(z, r) == Cx(Mul(z.re, r), Mul(z.im, r))

CSub(z, w) == Cx(Sub(z.re, w.re), Sub(z.im, w.im))

\* the viscous term with the wrong sign
OmegaPlus(omega_hat, viscosity, m2) ==
    CSub(omega_hat, CScale(CScale(Cx(Num(0), Num(-1)), viscosity), m2))

\* omega_hat - 1j * viscosity * m2
Omega(omega_hat, viscosity, m2) ==
    CSub(omega_hat, CScale(CScale(Cx(Num(0), Num(1)), viscosity), m2))

\* a mask that also drops the entries that are exactly zero
SigmaStrict(omega) == IF Gt(omega.im, Num(0)) THEN omega.im ELSE NaN

\* omega.where(omega.imag >= 0).imag
Sigma(omega) == IF Geq(omega.im, Num(0)) THEN omega.im ELSE NaN

\* ds['omega_hat'] = np.lib.scimath.sqrt(ds['eigen_value'])
ComputeOmegaHat ==
    /\ pc = "omega_hat"
    /\ ds' = [ds EXCEPT !.omega_hat =
                 [i \in DOMAIN ds.lambda |-> CSqrt(ds.eigen_value[i])]]
    /\ pc' = "omega"
    /\ UNCHANGED <<config, eigen_value_arr, psi_arr, ii, error, writes, solves, warnings>>

\* ds['omega'] = ds['omega_hat'] - 1j * ds['viscosity'] * ds['m2'],
\* of dimensions (lambda, viscosity)
ComputeOmega ==
    /\ pc = "omega"
    /\ ds' = [ds EXCEPT !.omega =
                 [i \in DOMAIN ds.lambda |-> [v \in DOMAIN ds.viscosity |->
                     Omega(ds.omega_hat[i], ds.viscosity[v], ds.m2[i])]]]
    /\ pc' = "sigma"
    /\ UNCHANGED <<config, eigen_value_arr, psi_arr, ii, error, writes, solves, warnings>>

\* ds['sigma'] = ds['omega'].where(ds['omega'].imag >= 0).imag
\*                   .transpose('viscosity', 'lambda')
ComputeSigma ==
    /\ pc = "sigma"
    /\ ds' = [ds EXCEPT !.sigma =
                 [v \in DOMAIN ds.viscosity |-> [i \in DOMAIN ds.lambda |->
                     Sigma(ds.omega[i][v])]]]
    /\ pc' = "sigma_normalised"
    /\ UNCHANGED <<config, eigen_value_arr, psi_arr, ii, error, writes, solves, warnings>>

\* ds['sigma_normalised'] = ds['sigma'] / f
ComputeSigmaNormalised ==
    /\ pc = "sigma_normalised"
    /\ ds' = [ds EXCEPT !.sigma_normalised =
                 [v \in DOMAIN ds.sigma |-> [i \in DOMAIN ds.sigma[v] |->
                     Div(ds.sigma[v][i], f)]]]
    /\ pc' = "unstable"
    /\ UNCHANGED <<config, eigen_value_arr, psi_arr, ii, error, writes, solves, warnings>>

AllNaN(row) == \A i \in DOMAIN row : IsNaN(row[i])

\* an argmax that keeps the last index of the largest value
RECURSIVE ArgMaxLast(_, _)
ArgMaxLast(row, k) ==
    IF k = 1 THEN 1
    ELSE LET best == ArgMaxLast(row, k - 1)
         IN  IF Geq(row[k], row[best]) THEN k ELSE best

\* np.argmax over row[1..k]: the first index of the largest value
RECURSIVE ArgMax(_, _)
ArgMax(row, k) ==
    IF k = 1 THEN 1
    ELSE LET best == ArgMax(row, k - 1)
         IN  IF Gt(row[k], row[best]) THEN k ELSE best

\* np.nanargmax: not-a-number counts as -inf
NanArgMax(row) ==
    ArgMax([i \in DOMAIN row |-> IF IsNaN(row[i]) THEN Neg(Inf) ELSE row[i]], Len(row))

\* an idxmax without the all-not-a-number case
IdxMaxNoFill(row, coord) == coord[ArgMax(row, Len(row))]

\* DataArray.idxmax(dim): the coordinate of the largest value of the row,
\* not-a-number for a row that is not-a-number throughout
IdxMax(row, coord) == IF AllNaN(row) THEN NaN ELSE coord[NanArgMax(row)]

\* DataArray.max(dim), skipping not-a-number
NanMax(row) == IF AllNaN(row) THEN NaN ELSE row[NanArgMax(row)]

\* 1 / (sigma_unstable * 24 * 60 * 60)
TimeScaleDays(sigma_unstable) ==
    Div(Num(1), Mul(Mul(Mul(sigma_unstable, Num(24)), Num(60)), Num(60)))

\* lambda_unstable, sigma_unstable, time_scale_days
UnstableMode ==
    /\ pc = "unstable"
    /\ LET sigma_unstable == [v \in DOMAIN ds.sigma |-> NanMax(ds.sigma[v])]
       IN  ds' = [ds EXCEPT !.lambda_unstable =
                                [v \in DOMAIN ds.sigma |-> IdxMax(ds.sigma[v], ds.lambda)],
                            !.sigma_unstable = sigma_unstable,
                            !.time_scale_days =
                                [v \in DOMAIN ds.sigma |-> TimeScaleDays(sigma_unstable[v])]]
    /\ pc' = "normalise"
    /\ UNCHANGED <<config, eigen_value_arr, psi_arr, ii, error, writes, solves, warnings>>

AbsF(a) == IF a.n < 0 THEN Neg(a) ELSE a

\* the index among coord[1..k] nearest to the target; of two equally near,
\* the later one
RECURSIVE NearestIn(_, _, _)
NearestIn(coord, target, k) ==
    IF k = 1 THEN 1
    ELSE LET best == NearestIn(coord, target, k - 1)
         IN  IF Geq(AbsF(Sub(coord[best], target)), AbsF(Sub(coord[k], target)))
             THEN k ELSE best

\* .sel({'lon': target}, method='nearest')
Nearest(coord, target) == NearestIn(coord, target, Len(coord))

\* DataArray.sum(dim) over row[1..k], skipping not-a-number
RECURSIVE NanSum(_, _)
NanSum(row, k) ==
    IF k = 0 THEN Num(0)
    ELSE Add(NanSum(row, k - 1), IF IsNaN(row[k]) THEN Num(0) ELSE row[k])

\* a sign taken at the last grid point
SignCorrectedAtEnd(psi, target, coord) ==
    [j \in DOMAIN psi |-> Mul(Sign(psi[Len(psi)]), psi[j])]

\* np.sign(psi.sel(lon=x_vorticity_minima, method='nearest')) * psi
SignCorrected(psi, target, coord) ==
    [j \in DOMAIN psi |-> Mul(Sign(psi[Nearest(coord, target)]), psi[j])]

\* psi_sign_corrected / psi_sign_corrected.sum('lon')
NormArea(psi) == [j \in DOMAIN psi |-> Div(psi[j], NanSum(psi, Len(psi)))]

\* a division by the value at the first grid point
NormMaxAtStart(psi, target, coord) == [j \in DOMAIN psi |-> Div(psi[j], psi[1])]

\* psi_sign_corrected / psi_sign_corrected.sel(lon=x_vorticity_minima, method='nearest')
NormMax(psi, target, coord) ==
    [j \in DOMAIN psi |-> Div(psi[j], psi[Nearest(coord, target)])]

\* psi_sign_corrected, psi_norm_area, psi_norm_max
Normalise ==
    /\ pc = "normalise"
    /\ LET sc == [i \in DOMAIN ds.psi_unnormalised |->
                    SignCorrected(ds.psi_unnormalised[i], x_vorticity_minima, ds.lon)]
       IN  ds' = [ds EXCEPT !.psi_sign_corrected = sc,
                            !.psi_norm_area = [i \in DOMAIN sc |-> NormArea(sc[i])],
                            !.psi_norm_max = [i \in DOMAIN sc |->
                                NormMax(sc[i], x_vorticity_minima, ds.lon)]]
    /\ pc' = "done"
    /\ UNCHANGED <<config, eigen_value_arr, psi_arr, ii, error, writes, solves, warnings>>

(***************************************************************************)
(* The notebook, run from top to bottom; an exception ends the run.        *)
(***************************************************************************)
Next ==
    \/ SweepIteration
    \/ SweepRaises
    \/ SweepExit
    \/ Squeeze
    \/ BuildDataset
    \/ ComputeOmegaHat
    \/ ComputeOmega
    \/ ComputeSigma
    \/ ComputeSigmaNormalised
    \/ UnstableMode
    \/ Normalise

Spec == Init /\ [][Next]_vars

(***************************************************************************)
(* The sweep as a map over the wavelengths: the same loop body, run once   *)
(* for every index, in any order.                                          *)
(***************************************************************************)
AnyOrderIteration ==
    /\ pc = "loop"
    /\ \E i \in DOMAIN lambda_arr : writes[i] = 0 /\ LoopBody(i)

AnyOrderRaises ==
    /\ pc = "loop"
    /\ \E i \in DOMAIN lambda_arr : writes[i] = 0 /\ LoopBodyRaises(i)

NextAnyOrder ==
    \/ AnyOrderIteration
    \/ AnyOrderRaises
    \/ SweepExit
    \/ Squeeze
    \/ BuildDataset

SpecAnyOrder == Init /\ [][NextAnyOrder]_vars

(***************************************************************************)
(* Properties.                                                             *)
(***************************************************************************)
Defined(a) == ~IsNaN(a)

\* wavelengths positive and finite, viscosities positive, nx >= 3
ValidConfiguration ==
    /\ \A i \in DOMAIN lambda_arr :
        Gt(lambda_arr[i], Num(0)) /\ ~IsInf(lambda_arr[i])
    /\ \A v \in DOMAIN viscosity_arr : Gt(viscosity_arr[v], Num(0))
    /\ nx >= 3

\* the loop over lambda_arr has run to its end
LoopFinished == pc \notin {"loop", "error"}

\* psi_arr holds the squeezed, real eigenfunctions
Squeezed == pc \notin {"loop", "squeeze", "error"}

\* C1: once the loop over lambda_arr has finished, every slot i has been
\* written exactly once and holds the eigenvalue and the eigenfunction that
\* calculate_eigenvalue(lambda_arr[i]) returns.
SweepStoresEveryResult ==
    LoopFinished =>
        /\ DOMAIN eigen_value_arr = DOMAIN lambda_arr
        /\ DOMAIN psi_arr = DOMAIN lambda_arr
        /\ \A i \in DOMAIN lambda_arr :
            /\ writes[i] = 1
            /\ eigen_value_arr[i] = calculate_eigenvalue(lambda_arr[i]).val
            /\ pc = "squeeze" => psi_arr[i] = calculate_eigenvalue(lambda_arr[i]).vec

\* the loop has finished over several wavelengths with different results
SweepStoresEveryResultWitness ==
    /\ ValidConfiguration
    /\ pc = "squeeze"
    /\ Len(lambda_arr) >= 2
    /\ \E i, j \in DOMAIN lambda_arr :
        eigen_value_arr[i] # eigen_value_arr[j] /\ psi_arr[i] # psi_arr[j]

\* Im(omega) of (viscosity v, wavelength i), from omega_hat, A_r and m2
ImOmega(v, i) ==
    Sub(ds.omega_hat[i].im, Mul(ds.viscosity[v], Square(Div(TwoPi, ds.lambda[i]))))

\* C2: in the growth rate field, sigma(A_r, lambda) is Im(omega) exactly where
\* Im(omega) >= 0 (zero included) and not-a-number where Im(omega) < 0, so
\* every defined sigma is >= 0.
GrowthRateMaskedBelowZero ==
    ds.sigma # <<>> =>
        \A v \in DOMAIN ds.viscosity : \A i \in DOMAIN ds.lambda :
            IF Geq(ImOmega(v, i), Num(0))
            THEN ds.sigma[v][i] = ImOmega(v, i) /\ Geq(ds.sigma[v][i], Num(0))
            ELSE IsNaN(ds.sigma[v][i])

\* a field with an entry that is exactly zero, a positive one and a masked one
GrowthRateMaskedBelowZeroWitness ==
    /\ ValidConfiguration
    /\ ds.sigma # <<>>
    /\ \E v \in DOMAIN ds.viscosity : \E i, j, k \in DOMAIN ds.lambda :
        /\ ds.sigma[v][i] = Num(0)
        /\ Gt(ds.sigma[v][j], Num(0))
        /\ IsNaN(ds.sigma[v][k])

\* the wavelengths at which the defined sigma of row v is largest
Maximisers(v) ==
    {i \in DOMAIN ds.lambda :
        /\ Defined(ds.sigma[v][i])
        /\ \A j \in DOMAIN ds.lambda :
            Defined(ds.sigma[v][j]) => Geq(ds.sigma[v][i], ds.sigma[v][j])}

\* C3: for every viscosity row with a defined sigma, lambda_unstable is the
\* wavelength of the largest defined sigma of the row, the first (smallest)
\* such wavelength when several attain it, and sigma_unstable is sigma there.
UnstableModeIsFirstMaximum ==
    ds.lambda_unstable # <<>> =>
        \A v \in DOMAIN ds.viscosity :
            ~AllNaN(ds.sigma[v]) =>
                \E i \in Maximisers(v) :
                    /\ ds.lambda_unstable[v] = ds.lambda[i]
                    /\ \A j \in Maximisers(v) : i <= j /\ Geq(ds.lambda[j], ds.lambda[i])
                    /\ ds.sigma_unstable[v] = ds.sigma[v][i]

\* a row whose maximum is attained at two wavelengths, with a masked entry
UnstableModeIsFirstMaximumWitness ==
    /\ ValidConfiguration
    /\ ds.lambda_unstable # <<>>
    /\ \E v \in DOMAIN ds.viscosity :
        /\ Cardinality(Maximisers(v)) >= 2
        /\ \E i \in DOMAIN ds.lambda : IsNaN(ds.sigma[v][i])

\* C4: a viscosity row in which sigma is masked at every wavelength has
\* not-a-number lambda_unstable, sigma_unstable and time_scale_days; the
\* analysis raises nothing; the other rows have their values.
AllMaskedRowIsUndefined ==
    /\ (ds.sigma # <<>> /\ \E v \in DOMAIN ds.viscosity : AllNaN(ds.sigma[v])) =>
        /\ error = "none"
        /\ pc # "error"
    /\ ds.time_scale_days # <<>> =>
        \A v \in DOMAIN ds.viscosity :
            IF AllNaN(ds.sigma[v])
            THEN /\ IsNaN(ds.lambda_unstable[v])
                 /\ IsNaN(ds.sigma_unstable[v])
                 /\ IsNaN(ds.time_scale_days[v])
            ELSE /\ ds.lambda_unstable[v] \in Range(ds.lambda)
                 /\ Geq(ds.sigma_unstable[v], Num(0))
                 /\ ds.time_scale_days[v] =
                        Div(Num(1), Mul(ds.sigma_unstable[v], Num(24 * 60 * 60)))

\* the analysis has ended with a row masked throughout and a row that is not
AllMaskedRowIsUndefinedWitness ==
    /\ ValidConfiguration
    /\ pc = "done"
    /\ \E v, w \in DOMAIN ds.viscosity :
        AllNaN(ds.sigma[v]) /\ ~AllNaN(ds.sigma[w])

PositiveWavelengths == \A i \in DOMAIN lambda_arr : Gt(lambda_arr[i], Num(0))

\* C5: over positive, ascending wavelengths, lambda_unstable does not
\* decrease as the viscosity increases, among the rows where it is defined.
UnstableWavelengthMonotone ==
    (ds.lambda_unstable # <<>> /\ PositiveWavelengths) =>
        \A v, w \in DOMAIN ds.viscosity :
            (/\ Geq(ds.viscosity[w], ds.viscosity[v])
             /\ Defined(ds.lambda_unstable[v])
             /\ Defined(ds.lambda_unstable[w]))
            => Geq(ds.lambda_unstable[w], ds.lambda_unstable[v])

\* two rows, the more viscous one with the longer unstable wavelength
UnstableWavelengthMonotoneWitness ==
    /\ ValidConfiguration
    /\ ds.lambda_unstable # <<>>
    /\ \E v, w \in DOMAIN ds.viscosity :
        /\ Gt(ds.viscosity[w], ds.viscosity[v])
        /\ Gt(ds.lambda_unstable[w], ds.lambda_unstable[v])

\* what the ascending loop leaves in the arrays (C1)
SequentialResult == [i \in DOMAIN lambda_arr |-> calculate_eigenvalue(lambda_arr[i])]

\* one iteration changes one slot of the two arrays and none of its inputs
IterationFootprint ==
    (pc = "loop" /\ ii' # ii) =>
        /\ config' = config
        /\ \E i \in DOMAIN lambda_arr : \A j \in DOMAIN lambda_arr :
            j # i => eigen_value_arr'[j] = eigen_value_arr[j] /\ psi_arr'[j] = psi_arr[j]

\* whatever the order of the iterations, the finished sweep is the
\* sequential one
AnyOrderResult ==
    /\ LoopFinished =>
        /\ \A i \in DOMAIN lambda_arr : writes[i] = 1
        /\ eigen_value_arr = [i \in DOMAIN lambda_arr |-> SequentialResult[i].val]
        /\ pc = "squeeze" =>
            psi_arr = [i \in DOMAIN lambda_arr |-> SequentialResult[i].vec]
    /\ ds.eigen_value # <<>> =>
        /\ ds.lambda = lambda_arr
        /\ ds.eigen_value = [i \in DOMAIN lambda_arr |-> SequentialResult[i].val]
        /\ ds.psi_unnormalised =
              [i \in DOMAIN lambda_arr |->
                  [j \in 1..nx |-> SequentialResult[i].vec[j].re]]

InvalidConfigurationAbortsBeforeAnySolve ==
    ~ValidConfiguration =>
        /\ solves = 0
        /\ \A i \in DOMAIN lambda_arr : writes[i] = 0
        /\ ds = NoDataset

Converged(k) == calculate_eigenvalue(lambda_arr[k]).converged

\* C8: a solve that does not converge ends the sweep with an error: the loop
\* never goes past that wavelength, the run stops there, and nothing is ever
\* derived from a sweep with a slot that no successful solve has filled.
NoConvergenceAbortsSweep ==
    /\ \A k \in DOMAIN lambda_arr :
        ~Converged(k) =>
            /\ ii < k
            /\ writes[k] = 0
            /\ pc \in {"loop", "error"}
    /\ solves > ii => (pc = "error" /\ error = "ArpackNoConvergence")
    /\ pc = "error" => (error = "ArpackNoConvergence" /\ ~Converged(ii + 1))
    /\ (pc \in {"loop", "squeeze", "error"}) => ds = NoDataset
    /\ ds # NoDataset =>
        \A i \in DOMAIN lambda_arr : writes[i] = 1 /\ Converged(i)

\* the sweep has stopped at a wavelength with others solved before it and
\* others left after it
NoConvergenceAbortsSweepWitness ==
    /\ ValidConfiguration
    /\ pc = "error"
    /\ error = "ArpackNoConvergence"
    /\ ii >= 1
    /\ ii + 1 < Len(lambda_arr)

\* the eigenfunction entry z has an imaginary part beyond tol times its real part
ResidualExceeds(z, tol) == Gt(AbsF(z.im), Mul(tol, AbsF(z.re)))

Tolerances == {Frac(1, 1000000), Frac(1, 1000), Num(1)}

\* C9 as stated: once the imaginary parts are dropped (of a sweep with a
\* valid configuration), a PrecisionWarning has been issued exactly when the imaginary part of some collected entry
\* exceeds the tolerance relative to its real part.
PrecisionWarningSurfaced ==
    (Squeezed /\ ValidConfiguration) =>
        \A tol \in Tolerances :
            ("PrecisionWarning" \in warnings)
            <=> \E i \in DOMAIN lambda_arr : \E j \in 1..nx :
                    ResidualExceeds(SequentialResult[i].vec[j], tol)

\* C9, amended: the imaginary parts are dropped whatever their size: psi_arr
\* becomes the real part of every collected entry, no warning is issued and
\* the sweep completes without an error.
ImaginaryPartDroppedSilently ==
    Squeezed =>
        /\ \A i \in DOMAIN lambda_arr : \A j \in 1..nx :
            psi_arr[i][j] = SequentialResult[i].vec[j].re
        /\ warnings = {}
        /\ error = "none"

\* the imaginary parts have been dropped of an eigenfunction with an entry
\* of real part zero and imaginary part one
ImaginaryPartDroppedSilentlyWitness ==
    /\ ValidConfiguration
    /\ Squeezed
    /\ \E i \in DOMAIN lambda_arr : \E j \in 1..nx :
        /\ SequentialResult[i].vec[j].re = Num(0)
        /\ SequentialResult[i].vec[j].im = Num(1)
        /\ psi_arr[i][j] = Num(0)

\* the grid point nearest the vorticity minimum
ReferenceIndex ==
    CHOOSE r \in 1..nx : \A j \in 1..nx :
        j # r => Gt(AbsF(Sub(x[j], x_vorticity_minima)),
                    AbsF(Sub(x[r], x_vorticity_minima)))

\* C10: a wavelength whose raw eigenfunction is zero at the reference index
\* has psi_sign_corrected zero at every x and psi_norm_area and psi_norm_max
\* not-a-number at every x; no error is raised, and the other wavelengths
\* keep their eigenfunction up to its sign and a defined psi_norm_max.
ZeroReferenceDegenerates ==
    pc = "done" =>
        /\ error = "none"
        /\ \A i \in DOMAIN ds.lambda : \A j \in 1..nx :
            IF ds.psi_unnormalised[i][ReferenceIndex] = Num(0)
            THEN /\ ds.psi_sign_corrected[i][j] = Num(0)
                 /\ IsNaN(ds.psi_norm_area[i][j])
                 /\ IsNaN(ds.psi_norm_max[i][j])
            ELSE /\ ds.psi_sign_corrected[i][j] \in
                        {ds.psi_unnormalised[i][j], Neg(ds.psi_unnormalised[i][j])}
                 /\ Defined(ds.psi_norm_max[i][j])

\* the analysis has ended with a wavelength that is zero at the reference
\* index, though not everywhere, and a wavelength that is not
ZeroReferenceDegeneratesWitness ==
    /\ ValidConfiguration
    /\ pc = "done"
    /\ \E i, k \in DOMAIN ds.lambda :
        /\ ds.psi_unnormalised[i][ReferenceIndex] = Num(0)
        /\ \E j \in 1..nx : ds.psi_unnormalised[i][j] # Num(0)
        /\ ds.psi_unnormalised[k][ReferenceIndex] # Num(0)

\* C11: for every wavelength whose sign-corrected eigenfunction is not zero
\* at the reference index, psi_norm_max is 1 at the reference index and is
\* psi_sign_corrected divided by its value at the reference index at every
\* x, the reference index being the one the sign correction uses.
MaxNormalisedIsOneAtReference ==
    pc = "done" =>
        \A i \in DOMAIN ds.lambda :
            ds.psi_sign_corrected[i][ReferenceIndex] # Num(0) =>
                /\ ds.psi_norm_max[i][ReferenceIndex] = Num(1)
                /\ \A j \in 1..nx :
                    /\ ds.psi_norm_max[i][j] =
                          Div(ds.psi_sign_corrected[i][j],
                              ds.psi_sign_corrected[i][ReferenceIndex])
                    /\ ds.psi_sign_corrected[i][j] =
                          Mul(Sign(ds.psi_unnormalised[i][ReferenceIndex]),
                              ds.psi_unnormalised[i][j])

\* the analysis has ended with a wavelength whose eigenfunction is negative
\* at the reference index and has another value elsewhere
MaxNormalisedIsOneAtReferenceWitness ==
    /\ ValidConfiguration
    /\ pc = "done"
    /\ \E i \in DOMAIN ds.lambda :
        /\ Gt(Num(0), ds.psi_unnormalised[i][ReferenceIndex])
        /\ ds.psi_sign_corrected[i][ReferenceIndex] # Num(0)
        /\ \E j \in 1..nx :
            Defined(ds.psi_norm_max[i][j]) /\ ds.psi_norm_max[i][j] # Num(1)

\* the factor c takes the raw eigenfunction of wavelength i to the
\* sign-corrected one, at every x
UniformFactor(i, c) ==
    \A j \in 1..nx :
        ds.psi_sign_corrected[i][j] = Mul(Num(c), ds.psi_unnormalised[i][j])

\* C12: for every wavelength the sign-corrected eigenfunction is >= 0 at
\* the reference index, where it is the absolute value of the raw one; it is
\* the raw eigenfunction times one factor of {-1, 0, 1} at every x; and
\* the sign correction applied to it leaves it as it is.
SignCorrectionNormalForm ==
    pc = "done" =>
        \A i \in DOMAIN ds.lambda :
            /\ Geq(ds.psi_sign_corrected[i][ReferenceIndex], Num(0))
            /\ ds.psi_sign_corrected[i][ReferenceIndex] =
                  AbsF(ds.psi_unnormalised[i][ReferenceIndex])
            /\ \E c \in {-1, 0, 1} : UniformFactor(i, c)
            /\ SignCorrected(ds.psi_sign_corrected[i], x_vorticity_minima, ds.lon)
                  = ds.psi_sign_corrected[i]

\* the analysis has ended with three wavelengths whose factors are -1, 0
\* and 1, the eigenfunctions changed by the first two
SignCorrectionNormalFormWitness ==
    /\ ValidConfiguration
    /\ pc = "done"
    /\ \E i, j, k \in DOMAIN ds.lambda :
        /\ Gt(Num(0), ds.psi_unnormalised[i][ReferenceIndex])
        /\ UniformFactor(i, -1)
        /\ ds.psi_unnormalised[j][ReferenceIndex] = Num(0)
        /\ ds.psi_sign_corrected[j] # ds.psi_unnormalised[j]
        /\ UniformFactor(j, 0)
        /\ Gt(ds.psi_unnormalised[k][ReferenceIndex], Num(0))
        /\ UniformFactor(k, 1)

=============================================================================
